---- MODULE Spec2Model ----
(***************************************************************************)
(* Model of autoHTN.py: the recipe compiler (operators and production      *)
(* methods), the task grammar, the pruning heuristic and the method        *)
(* ordering heuristic that configure the pyhop search engine for a         *)
(* resource-crafting domain.                                               *)
(*                                                                         *)
(* A python dict is modelled as the sequence of its <<key, value>> pairs   *)
(* in insertion order (keys are unique).  A recipe name is the sequence of *)
(* its space-separated words.  The resource state is one record holding    *)
(* the single agent's remaining time and its count of every item.          *)
(***************************************************************************)
EXTENDS Integers, Sequences, FiniteSets, TLC

VARIABLES data, state, plan, call, stack, pc, result

vars == <<data, state, plan, call, stack, pc, result>>

\* The single agent identifier used by the main program.
ID == "agent"

(***************************************************************************)
(* Bounds of the model.                                                    *)
(***************************************************************************)
\* Largest initial count of an item drawn for the operator-level runs.
MaxInit == 2
\* Largest initial time budget drawn for the operator-level runs.
MaxTime == 3
\* Longest sequence of operator applications followed from one input.
MaxPlan == 3

(***************************************************************************)
(* Helpers on dicts (sequences of pairs) and sequences.                    *)
(***************************************************************************)
Range(s) == {s[i] : i \in DOMAIN s}

Keys(pairs) == {pairs[i][1] : i \in DOMAIN pairs}

\* dict.get(item, 0)
Amount(pairs, item) ==
    IF item \in Keys(pairs)
    THEN (CHOOSE p \in Range(pairs) : p[1] = item)[2]
    ELSE 0

RECURSIVE JoinWords(_)
\* name.replace(' ', '_') for a name given as its sequence of words
JoinWords(words) ==
    IF Len(words) = 0 THEN ""
    ELSE IF Len(words) = 1 THEN words[1]
    ELSE words[1] \o "_" \o JoinWords(Tail(words))

(***************************************************************************)
(* Recipes and domains (the content of a domain file).                     *)
(***************************************************************************)
Rule(name, produces, requires, consumes, time) ==
    [name |-> name, Produces |-> produces, Requires |-> requires,
     Consumes |-> consumes, Time |-> time]

punch_for_wood == Rule(<<"punch", "for", "wood">>, <<<<"wood", 1>>>>, << >>, << >>, 4)
craft_plank == Rule(<<"craft", "plank">>, <<<<"plank", 4>>>>, << >>, <<<<"wood", 1>>>>, 1)
craft_stick == Rule(<<"craft", "stick">>, <<<<"stick", 4>>>>, << >>, <<<<"plank", 2>>>>, 1)
craft_bench == Rule(<<"craft", "bench">>, <<<<"bench", 1>>>>, << >>, <<<<"plank", 4>>>>, 1)
craft_wooden_axe == Rule(<<"craft", "wooden_axe", "at", "bench">>, <<<<"wooden_axe", 1>>>>,
                         <<<<"bench", 1>>>>, <<<<"plank", 3>>>>, 1)
wooden_axe_for_wood == Rule(<<"wooden_axe", "for", "wood">>, <<<<"wood", 1>>>>,
                            <<<<"wooden_axe", 1>>>>, << >>, 2)
replant_wood == Rule(<<"replant", "wood">>, <<<<"wood", 2>>>>, << >>, <<<<"wood", 1>>>>, 3)
craft_wooden_pickaxe == Rule(<<"craft", "wooden_pickaxe", "at", "bench">>,
                             <<<<"wooden_pickaxe", 1>>>>, <<<<"bench", 1>>>>,
                             <<<<"plank", 3>>, <<"stick", 2>>>>, 1)
smelt_ore == Rule(<<"smelt", "ore">>, <<<<"ingot", 1>>>>, << >>, <<<<"ore", 1>>>>, 1)
crush_ingot == Rule(<<"crush", "ingot">>, <<<<"ore", 1>>>>, << >>, <<<<"ingot", 1>>>>, 1)

Domain(items, tools, recipes, initial, time, goal) ==
    [Items |-> items, Tools |-> tools, Recipes |-> recipes,
     Problem |-> [Initial |-> initial, Time |-> time, Goal |-> goal]]

\* The workshop domain used for the operator-level runs.
Workshop(initial, time) ==
    Domain(<<"wood", "plank">>, <<"bench", "wooden_axe">>,
           <<craft_plank, craft_bench, craft_wooden_axe, wooden_axe_for_wood,
             replant_wood>>,
           initial, time, <<<<"plank", 1>>>>)

\* Every initial inventory over the names in order, counts in 0..MaxInit.
Inventories(order) ==
    {[i \in 1..Len(order) |-> <<order[i], f[i]>>] :
        f \in [1..Len(order) -> 0..MaxInit]}

OperatorInputs ==
    {Workshop(inv, t) :
        inv \in Inventories(<<"wood", "plank", "bench", "wooden_axe">>),
        t \in 0..MaxTime}

(***************************************************************************)
(* Resource state.                                                         *)
(***************************************************************************)
all_items(d) == Range(d.Items) \cup Range(d.Tools)

set_up_state(d) ==
    [time |-> d.Problem.Time,
     count |-> [item \in all_items(d) |-> Amount(d.Problem.Initial, item)]]

\* getattr(state, item) on an item without an attribute raises AttributeError.
set_up_raises(d) == ~(Keys(d.Problem.Initial) \subseteq all_items(d))

(***************************************************************************)
(* Primitive actions.                                                      *)
(***************************************************************************)
RECURSIVE Deduct(_, _)
\* for item, num in pairs: count[item] -= num
Deduct(count, pairs) ==
    IF pairs = << >> THEN count
    ELSE Deduct([count EXCEPT ![Head(pairs)[1]] = @ - Head(pairs)[2]], Tail(pairs))

RECURSIVE Add(_, _)
\* for item, num in pairs: count[item] += num
Add(count, pairs) ==
    IF pairs = << >> THEN count
    ELSE Add([count EXCEPT ![Head(pairs)[1]] = @ + Head(pairs)[2]], Tail(pairs))

\* A bug that deducts the consumed items before any precondition is checked.
operator_partial(s, rule) ==
    LET taken == [s EXCEPT !.count = Deduct(s.count, rule.Consumes)] IN
    IF s.time < rule.Time THEN [ret |-> FALSE, state |-> taken]
    ELSE IF \E i \in DOMAIN rule.Requires :
                s.count[rule.Requires[i][1]] < rule.Requires[i][2]
         THEN [ret |-> FALSE, state |-> taken]
    ELSE IF \E i \in DOMAIN rule.Consumes :
                s.count[rule.Consumes[i][1]] < rule.Consumes[i][2]
         THEN [ret |-> FALSE, state |-> taken]
    ELSE [ret |-> TRUE,
          state |-> [time |-> s.time - rule.Time,
                     count |-> Add(taken.count, rule.Produces)]]

\* A bug that forgets the time check.
operator_no_time_check(s, rule) ==
    IF \E i \in DOMAIN rule.Requires :
            s.count[rule.Requires[i][1]] < rule.Requires[i][2]
    THEN [ret |-> FALSE, state |-> s]
    ELSE IF \E i \in DOMAIN rule.Consumes :
                s.count[rule.Consumes[i][1]] < rule.Consumes[i][2]
         THEN [ret |-> FALSE, state |-> s]
    ELSE [ret |-> TRUE,
          state |-> [time |-> s.time - rule.Time,
                     count |-> Add(Deduct(s.count, rule.Consumes), rule.Produces)]]

\* A bug that forgets the check of the consumed items.
operator_no_consume_check(s, rule) ==
    IF s.time < rule.Time THEN [ret |-> FALSE, state |-> s]
    ELSE IF \E i \in DOMAIN rule.Requires :
                s.count[rule.Requires[i][1]] < rule.Requires[i][2]
         THEN [ret |-> FALSE, state |-> s]
    ELSE [ret |-> TRUE,
          state |-> [time |-> s.time - rule.Time,
                     count |-> Add(Deduct(s.count, rule.Consumes), rule.Produces)]]

\* A bug that adds the produced items without deducting the consumed ones.
operator_no_consume(s, rule) ==
    IF s.time < rule.Time THEN [ret |-> FALSE, state |-> s]
    ELSE IF \E i \in DOMAIN rule.Requires :
                s.count[rule.Requires[i][1]] < rule.Requires[i][2]
         THEN [ret |-> FALSE, state |-> s]
    ELSE IF \E i \in DOMAIN rule.Consumes :
                s.count[rule.Consumes[i][1]] < rule.Consumes[i][2]
         THEN [ret |-> FALSE, state |-> s]
    ELSE [ret |-> TRUE,
          state |-> [time |-> s.time - rule.Time,
                     count |-> Add(s.count, rule.Produces)]]

\* make_operator(rule) applied to the state object s: ret is FALSE for the
\* failure value, and state is the state object as the call leaves it.
operator(s, rule) ==
    IF s.time < rule.Time THEN [ret |-> FALSE, state |-> s]
    ELSE IF \E i \in DOMAIN rule.Requires :
                s.count[rule.Requires[i][1]] < rule.Requires[i][2]
         THEN [ret |-> FALSE, state |-> s]
    ELSE IF \E i \in DOMAIN rule.Consumes :
                s.count[rule.Consumes[i][1]] < rule.Consumes[i][2]
         THEN [ret |-> FALSE, state |-> s]
    ELSE [ret |-> TRUE,
          state |-> [time |-> s.time - rule.Time,
                     count |-> Add(Deduct(s.count, rule.Consumes), rule.Produces)]]

\* 'op_' + name.replace(' ', '_')
op_name(rule) == "op_" \o JoinWords(rule.name)

(***************************************************************************)
(* Task grammar.  A task is a tuple (name, ID, arguments...); a method      *)
(* returns ok = FALSE for the failure value and otherwise its subtasks.     *)
(***************************************************************************)
Failed == [ok |-> FALSE, tasks |-> << >>]

Subtasks(tasks) == [ok |-> TRUE, tasks |-> tasks]

\* A bug that compares with > instead of >=.
check_enough_strict(s, id, item, num) ==
    IF s.count[item] > num THEN Subtasks(<< >>) ELSE Failed

check_enough(s, id, item, num) ==
    IF s.count[item] >= num THEN Subtasks(<< >>) ELSE Failed

produce_enough(s, id, item, num) ==
    Subtasks(<< <<"execute_production", id, item, num>> >>)

execute_production(s, id, item, num) ==
    Subtasks(<< <<"produce", id, item>>, <<"have_enough", id, item, num>> >>)

produce(s, id, item) ==
    Subtasks(<< <<"produce_" \o item, id>> >>)

\* The item names listed in make_method's short-circuit test.
DurableList == {"bench", "furnace", "iron_pickaxe", "stone_pickaxe", "wooden_pickaxe"}

RECURSIVE HaveEnoughTasks(_, _)
\* for item, num in pairs: subtasks.append(('have_enough', ID, item, num))
HaveEnoughTasks(id, pairs) ==
    IF pairs = << >> THEN << >>
    ELSE <<<<"have_enough", id, Head(pairs)[1], Head(pairs)[2]>>>>
         \o HaveEnoughTasks(id, Tail(pairs))

\* A bug that asks for the consumed items before the required ones.
method_consumes_first(rule, s, id) ==
    IF \E i \in DOMAIN rule.Produces :
          /\ rule.Produces[i][1] \in DurableList
          /\ s.count[rule.Produces[i][1]] > 0
    THEN Subtasks(<< >>)
    ELSE Subtasks(HaveEnoughTasks(id, rule.Consumes)
                  \o HaveEnoughTasks(id, rule.Requires)
                  \o << <<op_name(rule), id>> >>)

\* make_method(name, rule) applied to (state, ID)
method(rule, s, id) ==
    IF \E i \in DOMAIN rule.Produces :
          /\ rule.Produces[i][1] \in DurableList
          /\ s.count[rule.Produces[i][1]] > 0
    THEN Subtasks(<< >>)
    ELSE Subtasks(HaveEnoughTasks(id, rule.Requires)
                  \o HaveEnoughTasks(id, rule.Consumes)
                  \o << <<op_name(rule), id>> >>)

(***************************************************************************)
(* Method registry.  A registered method is named by the function it is    *)
(* and, for a production method, by the index of its recipe.               *)
(***************************************************************************)
Method(fn, rule) == [fn |-> fn, rule |-> rule]

RECURSIVE InsertByTime(_, _, _)
\* r placed after every entry whose time is not greater (a stable sort step)
InsertByTime(d, sorted, r) ==
    IF sorted = << >> THEN <<r>>
    ELSE IF d.Recipes[Head(sorted)].Time <= d.Recipes[r].Time
         THEN <<Head(sorted)>> \o InsertByTime(d, Tail(sorted), r)
         ELSE <<r>> \o sorted

RECURSIVE SortByTime(_, _)
\* recipes.sort(key=lambda x: x[1]['Time']) on a list of recipe indices
SortByTime(d, recipes) ==
    IF recipes = << >> THEN << >>
    ELSE InsertByTime(d, SortByTime(d, SubSeq(recipes, 1, Len(recipes) - 1)),
                      recipes[Len(recipes)])

\* production_map[item]: the recipes producing item, in recipe-table order
production_map(d, item) ==
    SelectSeq([r \in DOMAIN d.Recipes |-> r],
              LAMBDA r : item \in Keys(d.Recipes[r].Produces))

Producible(d) == UNION {Keys(d.Recipes[r].Produces) : r \in DOMAIN d.Recipes}

\* A bug that registers the recipes of an item in recipe-table order.
declare_methods_unsorted(d, name) ==
    IF name = "have_enough"
    THEN <<Method("check_enough", 0), Method("produce_enough", 0)>>
    ELSE IF name = "execute_production" THEN <<Method("execute_production", 0)>>
    ELSE IF name = "produce" THEN <<Method("produce", 0)>>
    ELSE IF \E item \in Producible(d) : name = "produce_" \o item
    THEN LET item == CHOOSE i \in Producible(d) : name = "produce_" \o i
             listed == production_map(d, item)
         IN [k \in DOMAIN listed |-> Method("produce_method", listed[k])]
    ELSE << >>

\* The methods registered under a task name by the module and declare_methods.
declare_methods(d, name) ==
    IF name = "have_enough"
    THEN <<Method("check_enough", 0), Method("produce_enough", 0)>>
    ELSE IF name = "execute_production" THEN <<Method("execute_production", 0)>>
    ELSE IF name = "produce" THEN <<Method("produce", 0)>>
    ELSE IF \E item \in Producible(d) : name = "produce_" \o item
    THEN LET item == CHOOSE i \in Producible(d) : name = "produce_" \o i
             sorted == SortByTime(d, production_map(d, item))
         IN [k \in DOMAIN sorted |-> Method("produce_method", sorted[k])]
    ELSE << >>

\* The operators registered by declare_operators: the recipe whose action
\* has this name (the last such recipe, as a later registration replaces an
\* earlier one), or 0.
declare_operators(d, name) ==
    LET same == {r \in DOMAIN d.Recipes : op_name(d.Recipes[r]) = name} IN
    IF same = {} THEN 0 ELSE CHOOSE r \in same : \A q \in same : q <= r

\* pyhop.get_subtasks(method, state, task): method(state, *task[1:])
get_subtasks(d, m, s, task) ==
    IF m.fn = "check_enough" THEN check_enough(s, task[2], task[3], task[4])
    ELSE IF m.fn = "produce_enough" THEN produce_enough(s, task[2], task[3], task[4])
    ELSE IF m.fn = "execute_production"
         THEN execute_production(s, task[2], task[3], task[4])
    ELSE IF m.fn = "produce" THEN produce(s, task[2], task[3])
    ELSE method(d.Recipes[m.rule], s, task[2])

(***************************************************************************)
(* Pruning heuristic.                                                      *)
(***************************************************************************)
\* The depth ceiling of the heuristic.
DepthCeiling == 400
\* max_allowed = max(num_needed * RepeatFactor, RepeatFloor)
RepeatFactor == 3
RepeatFloor == 10

Max(a, b) == IF a >= b THEN a ELSE b

\* calling_stack.count(curr_task)
Count(calling_stack, curr_task) ==
    Cardinality({i \in DOMAIN calling_stack : calling_stack[i] = curr_task})

\* The heuristic's first test: the agent is out of time.
out_of_time(s) == s.time < 0

\* A bug that prunes at max_allowed repetitions instead of beyond them.
heuristic_at_limit(s, curr_task, tasks, plan_so_far, depth, calling_stack) ==
    IF out_of_time(s) THEN TRUE
    ELSE IF depth > DepthCeiling THEN TRUE
    ELSE IF /\ curr_task[1] \in {"have_enough", "execute_production"}
            /\ \E i \in DOMAIN calling_stack : calling_stack[i] = curr_task
            /\ Len(curr_task) = 4
         THEN IF s.count[curr_task[3]] >= curr_task[4] THEN FALSE
              ELSE Count(calling_stack, curr_task)
                       >= Max(curr_task[4] * RepeatFactor, RepeatFloor)
    ELSE FALSE

\* A bug that applies the repetition limit to tasks of every kind.
heuristic_any_kind(s, curr_task, tasks, plan_so_far, depth, calling_stack) ==
    IF out_of_time(s) THEN TRUE
    ELSE IF depth > DepthCeiling THEN TRUE
    ELSE IF \E i \in DOMAIN calling_stack : calling_stack[i] = curr_task
         THEN IF Len(curr_task) = 4
              THEN IF s.count[curr_task[3]] >= curr_task[4] THEN FALSE
                   ELSE Count(calling_stack, curr_task)
                            > Max(curr_task[4] * RepeatFactor, RepeatFloor)
              ELSE Count(calling_stack, curr_task) > RepeatFloor
    ELSE FALSE

\* A bug that never prunes.
heuristic_never(s, curr_task, tasks, plan_so_far, depth, calling_stack) == FALSE

heuristic(s, curr_task, tasks, plan_so_far, depth, calling_stack) ==
    IF out_of_time(s) THEN TRUE
    ELSE IF depth > DepthCeiling THEN TRUE
    ELSE IF /\ curr_task[1] \in {"have_enough", "execute_production"}
            /\ \E i \in DOMAIN calling_stack : calling_stack[i] = curr_task
            /\ Len(curr_task) = 4
         THEN IF s.count[curr_task[3]] >= curr_task[4] THEN FALSE
              ELSE Count(calling_stack, curr_task)
                       > Max(curr_task[4] * RepeatFactor, RepeatFloor)
    ELSE FALSE

(***************************************************************************)
(* Method-ordering heuristic.                                              *)
(***************************************************************************)
\* is_ready: every have_enough subtask is met by the held counts
is_ready(s, subtasks) ==
    \A i \in DOMAIN subtasks :
        (subtasks[i][1] = "have_enough" /\ Len(subtasks[i]) = 4)
            => s.count[subtasks[i][3]] >= subtasks[i][4]

reorder_methods(d, s, curr_task, methods) ==
    IF Len(methods) <= 1 THEN methods
    ELSE LET sub(m) == get_subtasks(d, m, s, curr_task)
             ready == SelectSeq(methods,
                          LAMBDA m : sub(m).ok /\ is_ready(s, sub(m).tasks))
             not_ready == SelectSeq(methods,
                          LAMBDA m : sub(m).ok /\ ~is_ready(s, sub(m).tasks))
         IN ready \o not_ready

(***************************************************************************)
(* Operator-level specification: from any drawn input, any sequence of     *)
(* operator applications, each on the one shared state object.             *)
(***************************************************************************)
\* The record of the last call made: the function, its arguments, the state
\* before it, its return flag and the list it returned.
Call(fn, rule, task, methods, pre, ret, out) ==
    [fn |-> fn, rule |-> rule, task |-> task, methods |-> methods,
     pre |-> pre, ret |-> ret, out |-> out]

NoCall == Call("none", 0, << >>, << >>, [time |-> 0], FALSE, << >>)

NoResult == [ok |-> FALSE, plan |-> << >>]

Init ==
    /\ data \in OperatorInputs
    /\ state = set_up_state(data)
    /\ plan = << >>
    /\ call = NoCall
    /\ stack = << >>
    /\ pc = "idle"
    /\ result = NoResult

ApplyOperator ==
    /\ Len(plan) < MaxPlan
    /\ \E r \in DOMAIN data.Recipes :
        LET out == operator(state, data.Recipes[r]) IN
        /\ state' = out.state
        /\ plan' = IF out.ret THEN Append(plan, r) ELSE plan
        /\ call' = Call("operator", r, << >>, << >>, state, out.ret, << >>)
    /\ UNCHANGED <<data, stack, pc, result>>

Next == ApplyOperator

Spec == Init /\ [][Next]_vars

(***************************************************************************)
(* Hook-level specification: from any drawn inventory, one call of a       *)
(* production method or of the method-ordering heuristic.                  *)
(***************************************************************************)
\* Largest quantity asked for by a drawn task.
MaxNum == 2
\* Longest candidate method list drawn.
MaxMethods == 3

HookInputs ==
    {Workshop(inv, 3) :
        inv \in Inventories(<<"wood", "plank", "bench", "wooden_axe">>)}

\* The lists of at most n distinct elements of S.
SeqsUpTo(S, n) ==
    UNION {{q \in [1..k -> S] : \A i, j \in 1..k : q[i] = q[j] => i = j} : k \in 0..n}

\* Tasks taking (ID, item, num) and the methods that accept them.
QuantityTasks(d) ==
    {<<kind, ID, item, num>> :
        kind \in {"have_enough", "execute_production"},
        item \in all_items(d), num \in 1..MaxNum}

QuantityMethods ==
    {Method("check_enough", 0), Method("produce_enough", 0),
     Method("execute_production", 0)}

\* Tasks taking (ID) and the methods that accept them.
ProductionTasks(d) == {<<"produce_" \o item, ID>> : item \in Producible(d)}

ProductionMethods(d) == {Method("produce_method", r) : r \in DOMAIN d.Recipes}

InitHooks ==
    /\ data \in HookInputs
    /\ state = set_up_state(data)
    /\ plan = << >>
    /\ call = NoCall
    /\ stack = << >>
    /\ pc = "idle"
    /\ result = NoResult

CallMethod ==
    /\ call.fn = "none"
    /\ \E r \in DOMAIN data.Recipes :
        LET out == method(data.Recipes[r], state, ID) IN
        call' = Call("method", r, <<"produce_" \o data.Recipes[r].Produces[1][1], ID>>,
                     << >>, state, out.ok, out.tasks)
    /\ UNCHANGED <<data, state, plan, stack, pc, result>>

CallReorderQuantity ==
    /\ call.fn = "none"
    /\ \E task \in QuantityTasks(data), methods \in SeqsUpTo(QuantityMethods, MaxMethods) :
        call' = Call("reorder_methods", 0, task, methods, state, TRUE,
                     reorder_methods(data, state, task, methods))
    /\ UNCHANGED <<data, state, plan, stack, pc, result>>

CallReorderProduction ==
    /\ call.fn = "none"
    /\ \E task \in ProductionTasks(data),
          methods \in SeqsUpTo(ProductionMethods(data), MaxMethods) :
        call' = Call("reorder_methods", 0, task, methods, state, TRUE,
                     reorder_methods(data, state, task, methods))
    /\ UNCHANGED <<data, state, plan, stack, pc, result>>

NextHooks == CallMethod \/ CallReorderQuantity \/ CallReorderProduction

SpecHooks == InitHooks /\ [][NextHooks]_vars

(***************************************************************************)
(* Search-level specification: the depth-first search of the engine        *)
(* (pyhop.pyhop / seek_plan) configured with the methods, the operators    *)
(* and the two hooks above.  The recursion is kept as a stack of frames,   *)
(* one per active call of seek_plan; a frame holds the call's arguments,   *)
(* the methods still to be tried and the position within the call.         *)
(***************************************************************************)
set_up_goals(d) == HaveEnoughTasks(ID, d.Problem.Goal)

PlankProblem ==
    Domain(<<"wood", "plank">>, << >>, <<craft_plank>>,
           <<<<"wood", 1>>>>, 10, <<<<"plank", 4>>>>)

NoTimeProblem ==
    Domain(<<"wood", "plank">>, << >>, <<craft_plank>>,
           <<<<"wood", 1>>>>, 0, <<<<"plank", 4>>>>)

TwoGoalsProblem ==
    Domain(<<"wood", "plank", "stick">>, << >>, <<craft_plank, craft_stick>>,
           <<<<"wood", 1>>>>, 10, <<<<"plank", 4>>, <<"stick", 2>>>>)

HeldGoalProblem ==
    Domain(<<"wood", "plank", "stick">>, << >>, <<craft_plank>>,
           <<<<"wood", 2>>, <<"plank", 4>>>>, 10, <<<<"plank", 4>>, <<"stick", 1>>>>)

CycleProblem ==
    Domain(<<"ore", "ingot">>, << >>, <<smelt_ore, crush_ingot>>,
           << >>, 10, <<<<"ingot", 1>>>>)

ToolProblem ==
    Domain(<<"wood", "plank">>, <<"bench", "wooden_axe">>,
           <<craft_plank, craft_bench, craft_wooden_axe>>,
           <<<<"wood", 2>>>>, 10, <<<<"wooden_axe", 1>>>>)

BenchProblem ==
    Domain(<<"wood", "plank">>, <<"bench">>, <<craft_plank, craft_bench>>,
           <<<<"wood", 1>>, <<"bench", 1>>>>, 10, <<<<"bench", 2>>>>)

PunchProblem ==
    Domain(<<"wood">>, <<"wooden_axe">>, <<punch_for_wood, wooden_axe_for_wood>>,
           <<<<"wooden_axe", 1>>>>, 7, <<<<"wood", 2>>>>)

PickaxeProblem ==
    Domain(<<"wood", "plank", "stick">>, <<"bench", "wooden_pickaxe">>,
           <<craft_plank, craft_stick, craft_bench, craft_wooden_pickaxe>>,
           <<<<"wood", 2>>, <<"bench", 1>>>>, 10, <<<<"wooden_pickaxe", 1>>>>)

Problems ==
    {PlankProblem, NoTimeProblem, TwoGoalsProblem, HeldGoalProblem, CycleProblem,
     ToolProblem, BenchProblem, PunchProblem, PickaxeProblem}

Frame(s, tasks, plan_so_far, depth, calling_stack) ==
    [state |-> s, tasks |-> tasks, plan |-> plan_so_far, depth |-> depth,
     calling_stack |-> calling_stack, phase |-> "enter", alts |-> << >>]

Top == stack[Len(stack)]

Task1 == Top.tasks[1]

Pop == SubSeq(stack, 1, Len(stack) - 1)

\* The top frame with its position and pending methods replaced.
Advance(phase, alts) ==
    [stack EXCEPT ![Len(stack)] = [@ EXCEPT !.phase = phase, !.alts = alts]]

\* The call on top of the stack returns the failure value to its caller.
ReturnFalse ==
    /\ stack' = Pop
    /\ IF Len(stack) = 1
       THEN pc' = "done" /\ result' = NoResult
       ELSE UNCHANGED <<pc, result>>

\* The check hook as the engine calls it on entry to seek_plan.
Pruned ==
    heuristic(Top.state, Task1, Top.tasks, Top.plan, Top.depth, Top.calling_stack)

\* Most occurrences of one task on a calling stack that the model follows.
MaxRepeat == 13

\* A call of seek_plan is at its entry, within the depth and the repetition
\* that the model follows.
Entered ==
    /\ pc = "run"
    /\ Top.phase = "enter"
    /\ Top.depth <= DepthCeiling + 1
    /\ Top.tasks # << >> => Count(Top.calling_stack, Task1) <= MaxRepeat

InitPlan ==
    /\ data \in Problems
    /\ state = set_up_state(data)
    /\ plan = << >>
    /\ call = NoCall
    /\ stack = <<Frame(state, set_up_goals(data), << >>, 0, << >>)>>
    /\ pc = "run"
    /\ result = NoResult

\* tasks == []: the plan is returned through every caller.
ReturnPlan ==
    /\ Entered
    /\ Top.tasks = << >>
    /\ pc' = "done"
    /\ result' = [ok |-> TRUE, plan |-> Top.plan]
    /\ state' = Top.state
    /\ UNCHANGED <<data, plan, call, stack>>

\* The check hook vetoes the branch.
Prune ==
    /\ Entered
    /\ Top.tasks # << >>
    /\ Pruned
    /\ ReturnFalse
    /\ UNCHANGED <<data, state, plan, call>>

\* A primitive task whose operator succeeds on a copy of the state.
OperatorSucceeds ==
    /\ Entered
    /\ Top.tasks # << >>
    /\ ~Pruned
    /\ declare_operators(data, Task1[1]) # 0
    /\ LET out == operator(Top.state, data.Recipes[declare_operators(data, Task1[1])]) IN
        /\ out.ret
        /\ stack' = Append(Advance("operator", << >>),
                           Frame(out.state, Tail(Top.tasks), Append(Top.plan, Task1),
                                 Top.depth + 1, Top.calling_stack))
    /\ UNCHANGED <<data, state, plan, call, pc, result>>

\* A primitive task whose operator fails: the copy is dropped.
OperatorFails ==
    /\ Entered
    /\ Top.tasks # << >>
    /\ ~Pruned
    /\ declare_operators(data, Task1[1]) # 0
    /\ ~operator(Top.state, data.Recipes[declare_operators(data, Task1[1])]).ret
    /\ ReturnFalse
    /\ UNCHANGED <<data, state, plan, call>>

\* A compound task: its methods are fetched and ordered by the ordering hook.
Expand ==
    /\ Entered
    /\ Top.tasks # << >>
    /\ ~Pruned
    /\ declare_operators(data, Task1[1]) = 0
    /\ stack' = Advance("methods",
                        reorder_methods(data, Top.state, Task1,
                                        declare_methods(data, Task1[1])))
    /\ UNCHANGED <<data, state, plan, call, pc, result>>

\* The next method is tried; if it yields subtasks, seek_plan is called on
\* them followed by the remaining tasks.
TryMethod ==
    /\ pc = "run"
    /\ Top.phase = "methods"
    /\ Top.alts # << >>
    /\ LET sub == get_subtasks(data, Head(Top.alts), Top.state, Task1) IN
        stack' = IF sub.ok
                 THEN Append(Advance("methods", Tail(Top.alts)),
                             Frame(Top.state, sub.tasks \o Tail(Top.tasks), Top.plan,
                                   Top.depth + 1, Append(Top.calling_stack, Task1)))
                 ELSE Advance("methods", Tail(Top.alts))
    /\ UNCHANGED <<data, state, plan, call, pc, result>>

\* Every alternative of the call has failed.
Exhausted ==
    /\ pc = "run"
    /\ \/ Top.phase = "methods" /\ Top.alts = << >>
       \/ Top.phase = "operator"
    /\ ReturnFalse
    /\ UNCHANGED <<data, state, plan, call>>

NextPlan ==
    \/ ReturnPlan
    \/ Prune
    \/ OperatorSucceeds
    \/ OperatorFails
    \/ Expand
    \/ TryMethod
    \/ Exhausted

SpecPlan == InitPlan /\ [][NextPlan]_vars

\* The search is one sequential program: it takes its next step whenever it
\* has one.
SpecPlanFair == SpecPlan /\ WF_vars(NextPlan)

(***************************************************************************)
(* Properties of the primitive actions.                                    *)
(***************************************************************************)
\* The preconditions of a recipe's operator in a state.
Applicable(s, rule) ==
    /\ s.time >= rule.Time
    /\ \A i \in DOMAIN rule.Requires : s.count[rule.Requires[i][1]] >= rule.Requires[i][2]
    /\ \A i \in DOMAIN rule.Consumes : s.count[rule.Consumes[i][1]] >= rule.Consumes[i][2]

LastRule == data.Recipes[call.rule]

\* C1 as stated: after applying a recipe's operator with all preconditions
\* holding, each consumes item is lower by exactly its declared amount, each
\* produces item is higher by exactly its declared amount, the time is lower
\* by the recipe's cost and every other item is unchanged.
C1_ExactEffect ==
    (call.fn = "operator" /\ Applicable(call.pre, LastRule)) =>
        /\ call.ret
        /\ state.time = call.pre.time - LastRule.Time
        /\ \A item \in DOMAIN state.count :
            /\ item \in Keys(LastRule.Consumes) =>
                 state.count[item] = call.pre.count[item] - Amount(LastRule.Consumes, item)
            /\ item \in Keys(LastRule.Produces) =>
                 state.count[item] = call.pre.count[item] + Amount(LastRule.Produces, item)
            /\ item \notin Keys(LastRule.Consumes) \cup Keys(LastRule.Produces) =>
                 state.count[item] = call.pre.count[item]

\* C1 amended: after applying a recipe's operator with all preconditions
\* holding, the call succeeds, every item's count has changed by exactly its
\* produces amount (0 if not produced) minus its consumes amount (0 if not
\* consumed), and the time is lower by exactly the recipe's cost.
C1_NetEffect ==
    (call.fn = "operator" /\ Applicable(call.pre, LastRule)) =>
        /\ call.ret
        /\ state.time = call.pre.time - LastRule.Time
        /\ \A item \in DOMAIN state.count :
             state.count[item] = call.pre.count[item]
                                   - Amount(LastRule.Consumes, item)
                                   + Amount(LastRule.Produces, item)

\* An operator with a requires and a consumes entry has been applied with
\* its preconditions holding.
C1_Witness ==
    /\ call.fn = "operator"
    /\ Applicable(call.pre, LastRule)
    /\ LastRule.Requires # << >>
    /\ LastRule.Consumes # << >>
    /\ call.ret

\* C2: applying an operator when a precondition fails (time, a requires item
\* or a consumes item) returns the failure value and leaves every item count
\* and the remaining time as they were.
C2_FailureLeavesState ==
    (call.fn = "operator" /\ ~Applicable(call.pre, LastRule)) =>
        /\ ~call.ret
        /\ state = call.pre

\* An operator has failed on its requires check alone, in a state holding
\* everything it consumes and enough time.
C2_Witness ==
    /\ call.fn = "operator"
    /\ ~call.ret
    /\ call.pre.time >= LastRule.Time
    /\ \E i \in DOMAIN LastRule.Requires :
         call.pre.count[LastRule.Requires[i][1]] < LastRule.Requires[i][2]
    /\ LastRule.Consumes # << >>
    /\ \A i \in DOMAIN LastRule.Consumes :
         call.pre.count[LastRule.Consumes[i][1]] >= LastRule.Consumes[i][2]

RECURSIVE PlanTime(_, _)
\* The summed time cost of a sequence of recipe indices.
PlanTime(d, p) ==
    IF p = << >> THEN 0 ELSE d.Recipes[Head(p)].Time + PlanTime(d, Tail(p))

\* C4: with a non-negative budget and non-negative costs, the remaining time
\* is never negative after any sequence of operator applications, the summed
\* time cost of the applied actions never exceeds the initial budget, and
\* the heuristic's out-of-time test is never true.
C4_TimeNeverNegative ==
    /\ state.time >= 0
    /\ PlanTime(data, plan) <= data.Problem.Time
    /\ state.time = data.Problem.Time - PlanTime(data, plan)
    /\ ~out_of_time(state)

\* Actions have used the budget up and a further operator has then failed
\* on its time check alone.
C4_Witness ==
    /\ Len(plan) >= 2
    /\ call.fn = "operator"
    /\ ~call.ret
    /\ call.pre.time < LastRule.Time
    /\ Applicable([call.pre EXCEPT !.time = LastRule.Time], LastRule)

(***************************************************************************)
(* Properties of the search.                                               *)
(***************************************************************************)
RECURSIVE Execute(_, _, _)
\* The state reached by executing a plan's actions in order from state s.
Execute(d, s, p) ==
    IF p = << >> THEN s
    ELSE Execute(d, operator(s, d.Recipes[declare_operators(d, Head(p)[1])]).state,
                 Tail(p))

Returned == pc = "done" /\ result.ok

AfterPlan == Execute(data, set_up_state(data), result.plan)

\* C3: whenever the planner returns a plan, the state obtained by executing
\* the plan from the initial state holds at least the goal quantity of every
\* goal item at once.
C3_PlanAchievesGoals ==
    Returned =>
        \A i \in DOMAIN data.Problem.Goal :
            AfterPlan.count[data.Problem.Goal[i][1]] >= data.Problem.Goal[i][2]

\* C5: a "have enough" task (item, N) reached while the agent holds at least
\* N of item never has its production path expanded, on any branch of the
\* search: no call of seek_plan expands execute_production (item, N) in a
\* state holding at least N of item.
C5_HeldNeverProduces ==
    \A k \in DOMAIN stack :
        (/\ stack[k].tasks # << >>
         /\ stack[k].tasks[1][1] = "execute_production"
         /\ stack[k].phase = "methods")
            => stack[k].state.count[stack[k].tasks[1][3]] < stack[k].tasks[1][4]

\* C6: with the single recipe 1 wood -> 4 plank (time 1), 1 wood held, a
\* budget of 10 and the goal of 4 plank, the planner returns the one-step
\* plan made of that recipe's action, and the plank count after it is >= 4.
C6_PlankPlan ==
    (data = PlankProblem /\ pc = "done") =>
        /\ result.ok
        /\ result.plan = << <<op_name(craft_plank), ID>> >>
        /\ AfterPlan.count["plank"] >= 4
        /\ state = AfterPlan

\* The search on the plank problem has returned.
C6_Witness == data = PlankProblem /\ pc = "done" /\ Len(result.plan) = 1

\* The goal is unmet at the start and every recipe costs more than the budget.
TimeStarved ==
    /\ \E i \in DOMAIN data.Problem.Goal :
         set_up_state(data).count[data.Problem.Goal[i][1]] < data.Problem.Goal[i][2]
    /\ \A r \in DOMAIN data.Recipes : data.Recipes[r].Time > data.Problem.Time

Preview(m) == get_subtasks(data, m, call.pre, call.task)

Computable(m) == Preview(m).ok

Ready(m) == Preview(m).ok /\ is_ready(call.pre, Preview(m).tasks)

\* C8: the list returned by the method-ordering heuristic is a permutation
\* of its input, and a method whose preview returns the failure value is
\* still present, after every method whose preview succeeds.
C8_Permutation ==
    call.fn = "reorder_methods" =>
        /\ \A m \in Range(call.methods) \cup Range(call.out) :
             Count(call.out, m) = Count(call.methods, m)
        /\ \A i, j \in DOMAIN call.out :
             (~Computable(call.out[i]) /\ Computable(call.out[j])) => j < i

\* C9: the method-ordering heuristic is a stable partition of its input:
\* the ready methods first in their input order, then the others in their
\* input order; so an all-ready list is returned as it is, and reordering
\* the output again in the same state changes nothing.
C9_StablePartition ==
    call.fn = "reorder_methods" =>
        /\ call.out = SelectSeq(call.methods, Ready)
                        \o SelectSeq(call.methods, LAMBDA m : ~Ready(m))
        /\ (\A i \in DOMAIN call.methods : Ready(call.methods[i]))
              => call.out = call.methods
        /\ reorder_methods(data, call.pre, call.task, call.out) = call.out

\* C10: the production method of a recipe producing a tool of the domain of
\* which the agent holds at least 1 returns the empty sequence, and the
\* method of a recipe producing no held tool does not short-circuit.
C10_DurableShortCircuit ==
    call.fn = "method" =>
        LET held == \E i \in DOMAIN LastRule.Produces :
                       /\ LastRule.Produces[i][1] \in Range(data.Tools)
                       /\ call.pre.count[LastRule.Produces[i][1]] >= 1
        IN /\ held => (call.ret /\ call.out = << >>)
           /\ ~held => (call.ret /\ call.out # << >>
                        /\ call.out[Len(call.out)] = <<op_name(LastRule), ID>>)

(***************************************************************************)
(* Properties of the task grammar within the search.                       *)
(***************************************************************************)
\* Call j of the active calls is the re-check that follows the expansion of
\* execute_production (item, num) by call k: it is the first later call
\* whose task list is have_enough (item, num) followed by what followed the
\* execute_production task.
IsRecheck(k, j) ==
    /\ k < j
    /\ stack[k].tasks # << >>
    /\ stack[k].tasks[1][1] = "execute_production"
    /\ stack[k].phase = "methods"
    /\ stack[j].tasks = << <<"have_enough", stack[k].tasks[1][2], stack[k].tasks[1][3],
                             stack[k].tasks[1][4]>> >> \o Tail(stack[k].tasks)
    /\ \A i \in (k + 1)..(j - 1) : Len(stack[i].tasks) > Len(stack[k].tasks)

\* C11: every pass through execute_production (item, quantity) adds at least
\* one primitive action producing item to the plan before the follow-up
\* have_enough (item, quantity) is expanded, so the held count of item at the
\* re-check is strictly greater than at the execute_production task.
C11_ProductionProgress ==
    \A k, j \in DOMAIN stack :
        (IsRecheck(k, j) /\ stack[j].phase = "methods") =>
            LET item == stack[k].tasks[1][3] IN
            /\ stack[j].state.count[item] > stack[k].state.count[item]
            /\ \E n \in (Len(stack[k].plan) + 1)..Len(stack[j].plan) :
                 item \in Keys(data.Recipes[
                     declare_operators(data, stack[j].plan[n][1])].Produces)

(***************************************************************************)
(* Context-level specification: the engine is about to work on a task in   *)
(* some context (state, task, depth, calling stack) and makes one call on  *)
(* it: the pruning hook, the ordering hook, or one registered method.      *)
(* The state and the calling stack are python objects handed to the        *)
(* callee, so the context after the call is what the callee left in them.  *)
(***************************************************************************)
\* Largest quantity asked for by the task of a drawn context.
MaxNeed == 4

ContextInputs ==
    {Domain(<<"wood", "plank", "stick">>, <<"bench", "wooden_pickaxe">>,
            <<craft_plank, craft_stick, craft_bench, craft_wooden_pickaxe>>,
            inv, t, <<<<"wooden_pickaxe", 1>>>>) :
        inv \in Inventories(<<"plank", "bench">>), t \in (-1)..0}

ContextTasks(d) ==
    {<<kind, ID, item, num>> :
        kind \in {"have_enough", "execute_production"},
        item \in all_items(d), num \in 1..MaxNeed}
    \cup {<<"produce", ID, item>> : item \in all_items(d)}
    \cup {<<"produce_" \o item, ID>> : item \in Producible(d)}
    \cup {<<op_name(d.Recipes[r]), ID>> : r \in DOMAIN d.Recipes}

\* A task of the same kind and item as the drawn ones, of another quantity.
Decoy == <<"have_enough", ID, "plank", MaxNeed + 1>>

\* Calling stacks holding the task n times, alone or above another task.
ContextStacks(task) ==
    {[i \in 1..n |-> task] \o pad :
        n \in 0..(RepeatFactor * MaxNeed + 1), pad \in {<< >>, <<Decoy>>}}

\* A bug that lets a production method take the first consumed item at once.
left_by_eager(fn, context) ==
    IF fn = "produce_method" /\ context.state.count["plank"] > 0
    THEN [context EXCEPT !.state.count["plank"] = @ - 1]
    ELSE context

\* The context as a call of fn leaves it.  None of the methods and hooks
\* assigns to the state, the task list, the plan or the calling stack.
left_by(fn, context) ==
    IF fn = "check_enough" THEN context
    ELSE IF fn = "produce_enough" THEN context
    ELSE IF fn = "execute_production" THEN context
    ELSE IF fn = "produce" THEN context
    ELSE IF fn = "produce_method" THEN context
    ELSE IF fn = "heuristic" THEN context
    ELSE IF fn = "reorder_methods" THEN context
    ELSE context

InitContext ==
    /\ data \in ContextInputs
    /\ state = set_up_state(data)
    /\ plan = << >>
    /\ call = NoCall
    /\ \E task \in ContextTasks(data), depth \in {DepthCeiling, DepthCeiling + 1} :
         \E calling_stack \in ContextStacks(task) :
            stack = <<Frame(state, <<task>>, << >>, depth, calling_stack)>>
    /\ pc = "idle"
    /\ result = NoResult

\* The engine asks the pruning hook about the task.
CallHeuristic ==
    /\ call.fn = "none"
    /\ call' = Call("heuristic", 0, Task1, << >>, Top,
                    heuristic(Top.state, Task1, Top.tasks, Top.plan, Top.depth,
                              Top.calling_stack),
                    << >>)
    /\ stack' = <<left_by("heuristic", Top)>>
    /\ state' = left_by("heuristic", Top).state
    /\ UNCHANGED <<data, plan, pc, result>>

\* The engine asks the ordering hook to order the task's registered methods;
\* the hook previews every candidate.
CallOrdering ==
    /\ call.fn = "none"
    /\ declare_methods(data, Task1[1]) # << >>
    /\ call' = Call("reorder_methods", 0, Task1, declare_methods(data, Task1[1]), Top,
                    TRUE,
                    reorder_methods(data, Top.state, Task1,
                                    declare_methods(data, Task1[1])))
    /\ stack' = <<left_by("reorder_methods", Top)>>
    /\ state' = left_by("reorder_methods", Top).state
    /\ UNCHANGED <<data, plan, pc, result>>

\* The engine calls one of the task's registered methods.
CallRegistered ==
    /\ call.fn = "none"
    /\ \E k \in DOMAIN declare_methods(data, Task1[1]) :
        LET m == declare_methods(data, Task1[1])[k]
            sub == get_subtasks(data, m, Top.state, Task1)
        IN /\ call' = Call(m.fn, m.rule, Task1, << >>, Top, sub.ok, sub.tasks)
           /\ stack' = <<left_by(m.fn, Top)>>
           /\ state' = left_by(m.fn, Top).state
    /\ UNCHANGED <<data, plan, pc, result>>

NextContext == CallHeuristic \/ CallOrdering \/ CallRegistered

SpecContext == InitContext /\ [][NextContext]_vars

(***************************************************************************)
(* Properties of the pruning heuristic.                                    *)
(***************************************************************************)
\* The task of the last call is a have_enough or execute_production task.
QuantityTask == call.task[1] \in {"have_enough", "execute_production"}

\* C12: the heuristic returns 'prune' exactly when the remaining time is
\* negative, or the depth exceeds 400, or the task is a have_enough or
\* execute_production task (item, q) that occurs on the calling stack, fewer
\* than q of item are held and the task occurs on the calling stack more
\* than max(3*q, 10) times.
C12_PruneExactly ==
    call.fn = "heuristic" =>
        (call.ret <=>
            \/ call.pre.state.time < 0
            \/ call.pre.depth > 400
            \/ /\ QuantityTask
               /\ call.task \in Range(call.pre.calling_stack)
               /\ call.pre.state.count[call.task[3]] < call.task[4]
               /\ Count(call.pre.calling_stack, call.task)
                    > Max(3 * call.task[4], 10))

\* The heuristic has been asked, in time and within the depth ceiling, about
\* a task of quantity 4 not yet held that is on the calling stack exactly
\* max(3*4, 10) = 12 times, and has not pruned.
C12_Witness ==
    /\ call.fn = "heuristic"
    /\ QuantityTask
    /\ call.task[4] = 4
    /\ call.pre.state.time >= 0
    /\ call.pre.depth <= 400
    /\ call.pre.state.count[call.task[3]] < 4
    /\ Count(call.pre.calling_stack, call.task) = 12
    /\ ~call.ret

\* C13 as stated: for a task of any other kind the heuristic never returns
\* 'prune', in any state, at any depth and with any calling stack.
C13_NeverPruned ==
    (call.fn = "heuristic" /\ ~QuantityTask) => ~call.ret

\* C13 amended: for a task of any other kind the heuristic returns 'prune'
\* exactly when the remaining time is negative or the depth exceeds 400,
\* whatever the calling stack holds.
C13_OnlyTimeAndDepth ==
    (call.fn = "heuristic" /\ ~QuantityTask) =>
        (call.ret <=> (call.pre.state.time < 0 \/ call.pre.depth > 400))

\* The heuristic has been asked, in time and within the depth ceiling, about
\* a task of another kind that is on the calling stack more than 10 times,
\* and has not pruned.
C13_Witness ==
    /\ call.fn = "heuristic"
    /\ ~QuantityTask
    /\ call.pre.state.time >= 0
    /\ call.pre.depth <= 400
    /\ Count(call.pre.calling_stack, call.task) > 10
    /\ ~call.ret

(***************************************************************************)
(* Properties of the item counts.                                          *)
(***************************************************************************)
\* C14: with non-negative initial counts and recipe quantities, every item
\* count is a non-negative integer in every state reached by any sequence of
\* operator applications, successful or failed, and so on entry to every
\* operator.
C14_CountsNeverNegative ==
    /\ \A item \in DOMAIN state.count : state.count[item] \in Nat
    /\ call.fn = "operator" =>
         \A item \in DOMAIN call.pre.count : call.pre.count[item] \in Nat

\* After an earlier action, an operator has succeeded and used a consumed
\* item up, and an operator consuming that item has then failed.
C14_Witness ==
    /\ call.fn = "operator"
    /\ ~call.ret
    /\ Len(plan) >= 2
    /\ \E i \in DOMAIN LastRule.Consumes :
         /\ state.count[LastRule.Consumes[i][1]] = 0
         /\ LastRule.Consumes[i][1] \in Keys(data.Recipes[plan[Len(plan)]].Consumes)

(***************************************************************************)
(* Frame property of the methods and hooks.                                *)
(***************************************************************************)
Callees ==
    {"check_enough", "produce_enough", "execute_production", "produce",
     "produce_method", "heuristic", "reorder_methods"}

C16_SubtaskOrder ==
    (call.fn = "produce_method" /\ call.out # << >>) =>
        LET req == LastRule.Requires
            con == LastRule.Consumes
        IN /\ call.ret
           /\ Len(call.out) = Len(req) + Len(con) + 1
           /\ \A i \in DOMAIN req :
                call.out[i] = <<"have_enough", ID, req[i][1], req[i][2]>>
           /\ \A i \in DOMAIN con :
                call.out[Len(req) + i] = <<"have_enough", ID, con[i][1], con[i][2]>>
           /\ call.out[Len(call.out)] = <<"op_" \o JoinWords(LastRule.name), ID>>

\* The production method of a recipe with a requires entry and two consumes
\* entries has returned its subtasks.
C16_Witness ==
    /\ call.fn = "produce_method"
    /\ call.out # << >>
    /\ Len(LastRule.Requires) = 1
    /\ Len(LastRule.Consumes) = 2

(***************************************************************************)
(* Start-up specification: the program loads a domain file, builds the     *)
(* initial state and registers the production methods of one item.         *)
(***************************************************************************)
\* Largest number of recipes in a drawn recipe table.
MaxRecipes == 3

\* A recipe producing two items, as costly as wooden_axe_for_wood.
chop_tree == Rule(<<"chop", "tree">>, <<<<"wood", 2>>, <<"stick", 1>>>>, << >>, << >>, 2)

RecipePool ==
    {punch_for_wood, wooden_axe_for_wood, chop_tree, craft_plank, craft_stick}

\* Domain files: every table of distinct recipes of the pool, an item list
\* that names every item or leaves plank out, and an initial inventory that
\* names wood alone or wood and plank.
LoadInputs ==
    {Domain(items, <<"wooden_axe">>, recipes, initial, t, <<<<"plank", 1>>>>) :
        items \in {<<"wood", "plank", "stick">>, <<"wood", "stick">>},
        recipes \in SeqsUpTo(RecipePool, MaxRecipes),
        initial \in Inventories(<<"wood">>) \cup Inventories(<<"wood", "plank">>),
        t \in {0, MaxTime}}

\* No state object has been built yet.
NoState == NoCall.pre

InitLoad ==
    /\ data \in LoadInputs
    /\ state = NoState
    /\ plan = << >>
    /\ call = NoCall
    /\ stack = << >>
    /\ pc = "loaded"
    /\ result = NoResult

\* state = set_up_state(data, agent_id)
SetUpState ==
    /\ pc = "loaded"
    /\ IF set_up_raises(data)
       THEN /\ pc' = "AttributeError"
            /\ state' = state
       ELSE /\ pc' = "ready"
            /\ state' = set_up_state(data)
    /\ UNCHANGED <<data, plan, call, stack, result>>

\* declare_methods(data), observed at the registration of one item's task.
DeclareMethods ==
    /\ pc = "ready"
    /\ \E item \in Producible(data) :
        call' = Call("declare_methods", 0, <<"produce_" \o item, ID>>,
                     declare_methods(data, "produce_" \o item), state, TRUE, <<item>>)
    /\ pc' = "declared"
    /\ UNCHANGED <<data, state, plan, stack, result>>

NextLoad == SetUpState \/ DeclareMethods

SpecLoad == InitLoad /\ [][NextLoad]_vars

\* C17: the methods registered for a producible item's production task are
\* exactly the recipes whose produces mapping contains the item, each once,
\* in order of non-decreasing time cost, recipes of equal cost in
\* recipe-table order.
C17_RegisteredByTime ==
    call.fn = "declare_methods" =>
        LET item == call.out[1]
            ms == call.methods
        IN /\ \A k \in DOMAIN ms : ms[k].fn = "produce_method"
           /\ {ms[k].rule : k \in DOMAIN ms}
                = {r \in DOMAIN data.Recipes : item \in Keys(data.Recipes[r].Produces)}
           /\ \A i, j \in DOMAIN ms :
                i < j =>
                    /\ ms[i].rule # ms[j].rule
                    /\ data.Recipes[ms[i].rule].Time <= data.Recipes[ms[j].rule].Time
                    /\ data.Recipes[ms[i].rule].Time = data.Recipes[ms[j].rule].Time
                         => ms[i].rule < ms[j].rule

\* Three recipes have been registered for an item, the first of the table
\* last, two of them of equal cost and one of those producing two items.
C17_Witness ==
    /\ call.fn = "declare_methods"
    /\ Len(call.methods) = 3
    /\ call.methods[3].rule = 1
    /\ data.Recipes[call.methods[1].rule].Time = data.Recipes[call.methods[2].rule].Time
    /\ \E k \in DOMAIN call.methods : Len(data.Recipes[call.methods[k].rule].Produces) = 2

\* The item and tool names a domain refers to in its recipes, its goal and
\* its initial inventory.
Referenced(d) ==
    UNION {Keys(d.Recipes[r].Produces) \cup Keys(d.Recipes[r].Requires)
              \cup Keys(d.Recipes[r].Consumes) : r \in DOMAIN d.Recipes}
    \cup Keys(d.Problem.Goal) \cup Keys(d.Problem.Initial)

\* C18: the initial state built from a domain has a count entry for every
\* name referenced in the recipes, the goal and the initial inventory; a
\* name of the initial inventory has its declared quantity, every other
\* name has 0, and the remaining time is the time budget.
C18_EveryNameHasCount ==
    pc \in {"ready", "declared"} =>
        /\ state.time = data.Problem.Time
        /\ \A name \in Referenced(data) :
            /\ name \in DOMAIN state.count
            /\ state.count[name] = Amount(data.Problem.Initial, name)

(***************************************************************************)
(* Ingredients at the primitive action of a production method.             *)
(***************************************************************************)
\* The search has entered a call whose first task is a registered action.
AtAction(k) ==
    /\ stack[k].tasks # << >>
    /\ declare_operators(data, stack[k].tasks[1][1]) # 0

\* C19: whenever the search reaches the primitive action of a production
\* method, after the have_enough subtasks for the recipe's requires and
\* consumes entries have been completed in order, every required and every
\* consumed quantity of the recipe is held.
C19_IngredientsHeld ==
    \A k \in DOMAIN stack :
        AtAction(k) =>
            LET rule == data.Recipes[declare_operators(data, stack[k].tasks[1][1])] IN
            /\ \A i \in DOMAIN rule.Requires :
                 stack[k].state.count[rule.Requires[i][1]] >= rule.Requires[i][2]
            /\ \A i \in DOMAIN rule.Consumes :
                 stack[k].state.count[rule.Consumes[i][1]] >= rule.Consumes[i][2]

====
